---- MODULE Spec2Model ----
(***************************************************************************)
(* Model of hbs-report-generator: the Hubstaff API client (hubstaff.py)    *)
(* with its retry wrapper, the two cursor-following pagination loops, the  *)
(* aggregation of activities into a project x user matrix and the driver   *)
(* (generator.py).                                                         *)
(***************************************************************************)
EXTENDS Integers, Sequences, FiniteSets, TLC

(***************************************************************************)
(* Bounds of the model.                                                    *)
(***************************************************************************)
\* the service ends every listing of a whole run within MaxPages pages (the
\* page asked for as the MaxPages-th request of a loop carries no cursor);
\* the service of a client driven on its own has one page more
MaxPages == 2
\* longest activity list handed to accumulate_activities on its own
MaxActivities == 2

(***************************************************************************)
(* Program constants.                                                      *)
(***************************************************************************)
\* stop_after_attempt(3)
MaxAttempts == 3

(***************************************************************************)
(* Record values: Organization, User, Project, DailyActivity as they come  *)
(* out of the JSON bodies.                                                 *)
(***************************************************************************)
Org(i, n) == [id |-> i, name |-> n]

Usr(i, n, mail) ==
    [id |-> i, name |-> n, first_name |-> "First", last_name |-> "Last",
     email |-> mail, time_zone |-> "UTC", status |-> "active"]

Prj(i, n, st) == [id |-> i, name |-> n, status |-> st, billable |-> TRUE]

Act(i, uid, pid, secs, man) ==
    [id |-> i, date |-> "2023-09-02", user_id |-> uid, project_id |-> pid,
     task_id |-> {}, tracked |-> secs, manual |-> man, billable |-> 1]

\* Optional[...] = None
None == {}

\* the declared fields of each response model
AuthTokenFields == {"auth_token"}
PageableFields == {"next_page_start_id"}
OrganizationFields == {"id", "name"}
UserFields ==
    {"id", "name", "first_name", "last_name", "email", "time_zone", "status"}
ProjectFields == {"id", "name", "status", "billable"}
DailyActivityFields ==
    {"id", "date", "user_id", "project_id", "task_id", "tracked", "manual",
     "billable"}

(***************************************************************************)
(* Schema validation (BaseModel.model_validate).  A JSON object is a       *)
(* record, a JSON array a sequence, an Optional value a set of at most one *)
(* element.  A field declared without a default is required; fields the    *)
(* model does not declare are dropped; a JSON array declared Set[...] is   *)
(* turned into the set of its items.                                       *)
(***************************************************************************)
Range(s) == {s[i] : i \in DOMAIN s}

Restrict(obj, fields) == [k \in fields |-> obj[k]]

HasFields(obj, fields) == fields \subseteq DOMAIN obj

Valid(value) == [error |-> "none", value |-> value]

Invalid == [error |-> "ValidationError", value |-> <<>>]

\* pagination: Optional[PageableModel] = None
PaginationValid(body) ==
    "pagination" \in DOMAIN body =>
        \A p \in body.pagination : HasFields(p, PageableFields)

PaginationOf(body) ==
    IF "pagination" \in DOMAIN body
    THEN {Restrict(p, PageableFields) : p \in body.pagination}
    ELSE None

ValidateAuthTokenResponse(body) ==
    IF HasFields(body, AuthTokenFields)
    THEN Valid(Restrict(body, AuthTokenFields))
    ELSE Invalid

ValidateOrganizationsResponse(body) ==
    IF /\ HasFields(body, {"organizations"})
       /\ \A o \in Range(body.organizations) : HasFields(o, OrganizationFields)
       /\ PaginationValid(body)
    THEN Valid([pagination |-> PaginationOf(body),
                organizations |->
                    [i \in DOMAIN body.organizations |->
                        Restrict(body.organizations[i], OrganizationFields)]])
    ELSE Invalid

ValidateDailyActivitiesResponse(body) ==
    IF /\ HasFields(body, {"daily_activities", "users", "projects"})
       /\ \A a \in Range(body.daily_activities) :
              HasFields(a, DailyActivityFields)
       /\ \A u \in Range(body.users) : HasFields(u, UserFields)
       /\ \A p \in Range(body.projects) : HasFields(p, ProjectFields)
       /\ PaginationValid(body)
    THEN Valid([pagination |-> PaginationOf(body),
                daily_activities |->
                    [i \in DOMAIN body.daily_activities |->
                        Restrict(body.daily_activities[i], DailyActivityFields)],
                users |-> {Restrict(u, UserFields) : u \in Range(body.users)},
                projects |->
                    {Restrict(p, ProjectFields) : p \in Range(body.projects)}])
    ELSE Invalid

model_validate(response_type, body) ==
    CASE response_type = "AuthTokenResponse" -> ValidateAuthTokenResponse(body)
      [] response_type = "OrganizationsResponse" ->
            ValidateOrganizationsResponse(body)
      [] response_type = "DailyActivitiesResponse" ->
            ValidateDailyActivitiesResponse(body)

(***************************************************************************)
(* timedelta: days and seconds, normalised so that 0 <= seconds < 86400,   *)
(* the seconds of a day.                                                   *)
(***************************************************************************)
timedelta(secs) == [days |-> secs \div 86400, seconds |-> secs % 86400]

total_seconds(td) == td.days * 86400 + td.seconds

timedelta_add(a, b) == timedelta(total_seconds(a) + total_seconds(b))

(***************************************************************************)
(* accumulate_activities.  The two lookup maps are dict comprehensions     *)
(* over a set: when two members share an id the member iterated last wins, *)
(* and the iteration order of a set of hashed str-bearing values is not    *)
(* fixed, so LookupMaps is every map the comprehension can build.          *)
(***************************************************************************)
LookupMaps(members) ==
    {m \in [{x.id : x \in members} -> {x.name : x \in members}] :
        \A i \in DOMAIN m : \E x \in members : x.id = i /\ x.name = m[i]}

\* the zero-filled cross table of lines 44-47
ZeroTable(project_map, user_map) ==
    [p \in Range(project_map) |-> [u \in Range(user_map) |-> timedelta(0)]]

KeyError == [error |-> "KeyError", value |-> <<>>]

\* variant: the manual seconds are added on top of the tracked ones
RECURSIVE SummarizeWithManual(_, _, _, _, _)
SummarizeWithManual(acts, i, project_map, user_map, summary) ==
    IF i > Len(acts) THEN [error |-> "none", value |-> summary]
    ELSE IF acts[i].project_id \notin DOMAIN project_map THEN KeyError
    ELSE IF acts[i].user_id \notin DOMAIN user_map THEN KeyError
    ELSE LET p == project_map[acts[i].project_id]
             u == user_map[acts[i].user_id]
             cell == timedelta_add(summary[p][u],
                                   timedelta(acts[i].tracked + acts[i].manual))
         IN  SummarizeWithManual(acts, i + 1, project_map, user_map,
                                 [summary EXCEPT ![p][u] = cell])

\* variant: a record whose ids do not resolve is passed over (dict.get)
RECURSIVE SummarizeSkipping(_, _, _, _, _)
SummarizeSkipping(acts, i, project_map, user_map, summary) ==
    IF i > Len(acts) THEN [error |-> "none", value |-> summary]
    ELSE IF \/ acts[i].project_id \notin DOMAIN project_map
            \/ acts[i].user_id \notin DOMAIN user_map
    THEN SummarizeSkipping(acts, i + 1, project_map, user_map, summary)
    ELSE LET p == project_map[acts[i].project_id]
             u == user_map[acts[i].user_id]
             cell == timedelta_add(summary[p][u], timedelta(acts[i].tracked))
         IN  SummarizeSkipping(acts, i + 1, project_map, user_map,
                               [summary EXCEPT ![p][u] = cell])

\* the loop of lines 49-52 from activity i on
RECURSIVE Summarize(_, _, _, _, _)
Summarize(acts, i, project_map, user_map, summary) ==
    IF i > Len(acts) THEN [error |-> "none", value |-> summary]
    ELSE IF acts[i].project_id \notin DOMAIN project_map THEN KeyError
    ELSE IF acts[i].user_id \notin DOMAIN user_map THEN KeyError
    ELSE LET p == project_map[acts[i].project_id]
             u == user_map[acts[i].user_id]
             cell == timedelta_add(summary[p][u], timedelta(acts[i].tracked))
         IN  Summarize(acts, i + 1, project_map, user_map,
                       [summary EXCEPT ![p][u] = cell])

accumulate_activities(activities, project_map, user_map) ==
    Summarize(activities.daily_activities, 1, project_map, user_map,
              ZeroTable(project_map, user_map))

(***************************************************************************)
(* The remote service: what one underlying HTTP call can come back with.   *)
(* A call ends in a transport error (no connection, timeout, a non-2xx     *)
(* status turned into an error by the raise_for_status hook), or in a 2xx  *)
(* response whose body is JSON or not.                                     *)
(***************************************************************************)
TransportErrors == {"ConnectionError", "Timeout", "HTTPError"}

Failure(kind) == [error |-> kind, json |-> FALSE, body |-> <<>>]

NotJson == [error |-> "none", json |-> FALSE, body |-> <<>>]

Json(body) == [error |-> "none", json |-> TRUE, body |-> body]

Cursors == {10, 20}

\* a page's pagination member: null, or a cursor
Cursor(c) == {[next_page_start_id |-> c]}

O1 == Org(1, "Organization 1")
O2 == Org(2, "Organization 2")
\* another organization with the name of the first
O3 == Org(3, "Organization 1")

U1 == Usr(1, "User 1", "user@example.com")
\* differs from U1 in the email only
U1b == Usr(1, "User 1", "other@example.com")
U2 == Usr(2, "User 2", "two@example.com")

P1 == Prj(1, "Project 1", "active")
\* differs from P1 in the status only
P1b == Prj(1, "Project 1", "archived")
P2 == Prj(2, "Project 2", "active")

A1 == Act(1, 1, 1, 3600, 0)
A2 == Act(2, 1, 1, 1800, 60)
\* refers to a project no page carries
A3 == Act(3, 1, 9, 60, 0)

\* the JSON object of a record, with a member no model declares
WithExtraField(obj) == ("created_at" :> "2023-09-03T00:00:00Z") @@ obj

\* the JSON object of an activity record, the task_id member left out
WithoutTaskId(obj) == [k \in (DOMAIN obj) \ {"task_id"} |-> obj[k]]

SignInBodies ==
    {[auth_token |-> "sample_token", user_id |-> 7], [error |-> "no token"]}

OrganizationLists == {<<>>, <<O1>>, <<O2>>, <<O3>>}

OrganizationsBodies(more) ==
    {[organizations |-> l] : l \in OrganizationLists}
    \cup {[organizations |-> l, pagination |-> None] :
            l \in OrganizationLists}
    \cup {[organizations |-> l, pagination |-> Cursor(c)] :
            l \in OrganizationLists, c \in IF more THEN Cursors ELSE {}}
    \cup {[organizations |-> <<[id |-> 1]>>]}

DailyActivitiesContents ==
    {[daily_activities |-> <<A1>>, users |-> <<U1>>, projects |-> <<P1>>],
     [daily_activities |-> <<WithExtraField(A2)>>, users |-> <<U1, U1b>>,
      projects |-> <<P1, P1b>>],
     [daily_activities |-> <<A3>>, users |-> <<U1>>, projects |-> <<P1>>],
     [daily_activities |-> <<>>, users |-> <<U2>>, projects |-> <<P2>>]}

DailyActivitiesBodies(more) ==
    DailyActivitiesContents
    \cup {("pagination" :> Cursor(c)) @@ d :
            d \in DailyActivitiesContents, c \in IF more THEN Cursors ELSE {}}
    \cup {[daily_activities |-> <<>>, users |-> <<>>]}
    \cup {[daily_activities |-> <<WithoutTaskId(A1)>>, users |-> <<U1>>,
            projects |-> <<P1>>]}

Bodies(response_type, more) ==
    CASE response_type = "AuthTokenResponse" -> SignInBodies
      [] response_type = "OrganizationsResponse" -> OrganizationsBodies(more)
      [] response_type = "DailyActivitiesResponse" ->
            DailyActivitiesBodies(more)

\* every way the service can answer one call
Replies(response_type, more) ==
    {Failure(k) : k \in TransportErrors} \cup {NotJson}
    \cup {Json(b) : b \in Bodies(response_type, more)}

(***************************************************************************)
(* State.                                                                  *)
(***************************************************************************)
VARIABLES
    page_limit,         \* the page at which the service ends a listing
    pc,                 \* where the run stands (the function waiting)
    attempt,            \* tenacity's attempt number of the logical request
    outcomes,           \* outcome of every underlying call of that request
    http_response,      \* what the last underlying call came back with
    response,           \* what __send_request returned: {} or {model}
    raised,             \* the exception propagating, or "none"
    sent,               \* the last underlying HTTP call issued
    auth_token,         \* http.params: {} before sign-in, then {token}
    params,             \* the params dict of the running pagination loop
    organization_id,    \* the argument of get_operations_by_day
    result,             \* the accumulator of the running pagination loop
    pages,              \* the pages the running loop has received
    requests,           \* logical requests of the running loop
    calls,              \* underlying calls of the running loop
    org_response,       \* what get_organizations returned
    idx,                \* position of produce_report's for loop
    project_map,        \* accumulate_activities' project lookup map
    user_map,           \* accumulate_activities' user lookup map
    tracked_activities, \* organization name -> matrix
    matrices,           \* what accumulate_activities returned, call by call
    stdout,             \* documents written to standard output
    exit_code           \* {} while running, then {0} or {1}

vars ==
    <<page_limit, pc, attempt, outcomes, http_response, response, raised, sent,
      auth_token, params, organization_id, result, pages, requests, calls,
      org_response, idx, project_map, user_map, tracked_activities, matrices,
      stdout, exit_code>>

request_vars == <<attempt, outcomes, http_response, response, sent>>
report_vars ==
    <<org_response, idx, project_map, user_map, tracked_activities, matrices>>

\* args.date_start and args.date_end or args.date_start
date_start == "2024-09-02"
date_end == "2024-09-03"

SignInPath == "/v454/account/signin"
OrganizationsPath == "/v454/institution"
OperationsPath(id) ==
    "/v454/institution/" \o ToString(id) \o "/operations/by_day"

CallSites == {"authenticate", "get_organizations", "get_operations_by_day"}

ResponseType ==
    CASE pc = "authenticate" -> "AuthTokenResponse"
      [] pc = "get_organizations" -> "OrganizationsResponse"
      [] pc = "get_operations_by_day" -> "DailyActivitiesResponse"

\* variant: the listing is walked from its end
org_backwards ==
    org_response.organizations[Len(org_response.organizations) - idx + 1]

\* the organization produce_report's loop is at
org == org_response.organizations[idx]

\* variant: a call that has parameters of its own goes without the session's
SessionParamsReplaced ==
    IF auth_token = None \/ params # <<>> THEN <<>>
    ELSE [auth_token |-> CHOOSE t \in auth_token : TRUE]

\* the session's query parameters and headers, merged into every call
SessionParams ==
    IF auth_token = None THEN <<>>
    ELSE [auth_token |-> CHOOSE t \in auth_token : TRUE]

SessionHeaders == [Accept |-> "application/json", AppToken |-> "app_token"]

\* the call __send_request hands to http.request
Request ==
    CASE pc = "authenticate" ->
            [method |-> "post", path |-> SignInPath, params |-> SessionParams,
             headers |-> [Content_Type |-> "multipart/form-data"]
                         @@ SessionHeaders]
      [] pc = "get_organizations" ->
            [method |-> "get", path |-> OrganizationsPath,
             params |-> params @@ SessionParams, headers |-> SessionHeaders]
      [] pc = "get_operations_by_day" ->
            [method |-> "get", path |-> OperationsPath(organization_id),
             params |-> params @@ SessionParams,
             headers |-> [DateStart |-> date_start, DateStop |-> date_end]
                         @@ SessionHeaders]

\* variant: one budget for the whole session, the attempts made so far count
InvokeOnSharedBudget ==
    /\ attempt' = IF attempt = 0 THEN 1 ELSE attempt
    /\ outcomes' = <<>>
    /\ http_response' = <<>>
    /\ response' = {}
    /\ sent' = <<>>

\* a fresh call of the decorated __send_request
Invoke ==
    /\ attempt' = 1
    /\ outcomes' = <<>>
    /\ http_response' = <<>>
    /\ response' = {}
    /\ sent' = <<>>

\* the frame of __send_request is gone once its caller has taken the result
Consumed ==
    /\ attempt' = 0
    /\ outcomes' = <<>>
    /\ http_response' = <<>>
    /\ response' = {}
    /\ sent' = <<>>

\* the locals of a pagination loop are gone once its result is used
Discarded ==
    /\ params' = <<>>
    /\ pages' = <<>>
    /\ requests' = 0
    /\ calls' = 0

Init ==
    /\ page_limit = MaxPages
    /\ pc = "main"
    /\ attempt = 0
    /\ outcomes = <<>>
    /\ http_response = <<>>
    /\ response = {}
    /\ raised = "none"
    /\ sent = <<>>
    /\ auth_token = None
    /\ params = <<>>
    /\ organization_id = 0
    /\ result = <<>>
    /\ pages = <<>>
    /\ requests = 0
    /\ calls = 0
    /\ org_response = <<>>
    /\ idx = 0
    /\ project_map = <<>>
    /\ user_map = <<>>
    /\ tracked_activities = <<>>
    /\ matrices = <<>>
    /\ stdout = <<>>
    /\ exit_code = {}

(***************************************************************************)
(* One attempt of __send_request under the retry decorator: the call, the  *)
(* JSON decoding, the validation, then tenacity's decision.  Only a        *)
(* pydantic ValidationError is not retried; the third failure is re-raised *)
(* as it is (reraise=True).                                                *)
(***************************************************************************)
\* what one execution of the function body ends in
Outcome(response_type, reply) ==
    IF reply.error # "none" THEN [error |-> reply.error, value |-> <<>>]
    ELSE IF ~reply.json THEN [error |-> "JSONDecodeError", value |-> <<>>]
    ELSE model_validate(response_type, reply.body)

\* variant: every exception is retried, a ValidationError included
RetryAnyError(error) == error # "none"

\* variant: an HTTP status error is taken for final and not retried
RetryUnlessHttpError(error) ==
    error \notin {"none", "ValidationError", "HTTPError"}

\* variant: only failures of the transport are retried
RetryTransportErrors(error) == error \in TransportErrors

\* retry_if_not_exception_type(pydantic.ValidationError)
ShouldRetry(error) == error # "none" /\ error # "ValidationError"

\* variant: the budget is one attempt short
StopOneEarly(attempt_number) == attempt_number >= MaxAttempts - 1

\* stop_after_attempt(3)
ShouldStop(attempt_number) == attempt_number >= MaxAttempts

\* variant: reraise left at its default, the failure wrapped in a RetryError
RaiseRetryError(error) == "RetryError"

\* reraise=True: the last attempt's own exception
Reraise(error) == error

send_request ==
    /\ pc \in CallSites
    /\ response = {}
    /\ raised = "none"
    /\ \E reply \in Replies(ResponseType, requests < page_limit) :
       LET out == Outcome(ResponseType, reply)
       IN  /\ sent' = Request
           /\ http_response' = reply
           /\ calls' = calls + 1
           /\ outcomes' = Append(outcomes, out.error)
           /\ IF ~ShouldRetry(out.error)
              THEN /\ attempt' = attempt
                   /\ IF out.error = "none"
                      THEN response' = {out.value} /\ raised' = raised
                      ELSE response' = response /\ raised' = out.error
              ELSE IF ShouldStop(attempt)
              THEN /\ attempt' = attempt
                   /\ response' = response
                   /\ raised' = Reraise(out.error)
              ELSE /\ attempt' = attempt + 1
                   /\ response' = response
                   /\ raised' = raised
    /\ UNCHANGED <<page_limit,
                   pc, auth_token, params, organization_id, result, pages,
                   requests, report_vars, stdout, exit_code>>

\* variant: the page's items are added once for every attempt it took
RECURSIVE Repeated(_, _)
Repeated(items, n) == IF n = 0 THEN <<>> ELSE items \o Repeated(items, n - 1)

extend_per_attempt(list, items) == list \o Repeated(items, attempt)

\* list.extend and set.update
extend(list, items) == list \o items

\* variant: members are told apart by their id only
update_by_id(set, items) ==
    set \cup {x \in items : \A y \in set : y.id # x.id}

update(set, items) == set \cup items

\* the model __send_request returned
Returned == CHOOSE r \in response : TRUE

\* variant: the loop gives up after its second page, cursor or not
has_next_page_capped(page) == page.pagination # None /\ requests < 2

\* has_next_page := response.pagination is not None
has_next_page(page) == page.pagination # None

\* variant: the cursor is stored once and never replaced (dict.setdefault)
KeepFirstCursor(page) ==
    LET cursor == CHOOSE c \in page.pagination : TRUE
    IN  params @@ ("page_start_id" :> cursor.next_page_start_id)

\* params.update({'page_start_id': response.pagination.next_page_start_id})
NextParams(page) ==
    LET cursor == CHOOSE c \in page.pagination : TRUE
    IN  ("page_start_id" :> cursor.next_page_start_id) @@ params

(***************************************************************************)
(* main, lines 99-103: the settings are loaded (a pydantic ValidationError *)
(* when a variable is missing) and the client is constructed, which signs  *)
(* in.                                                                     *)
(***************************************************************************)
load_settings(complete) ==
    /\ pc = "main"
    /\ raised = "none"
    /\ IF complete
       THEN /\ pc' = "authenticate"
            /\ Invoke
            /\ requests' = 1
            /\ calls' = 0
            /\ raised' = raised
       ELSE /\ raised' = "ValidationError"
            /\ UNCHANGED <<pc, request_vars, requests, calls>>
    /\ UNCHANGED <<page_limit,
                   auth_token, params, organization_id, result, pages,
                   report_vars, stdout, exit_code>>

\* variant: the constructor swallows a failed sign-in and goes on unsigned
authenticate_lenient ==
    /\ pc = "authenticate"
    /\ response # {} \/ raised # "none"
    /\ auth_token' = IF response # {} THEN {Returned.auth_token} ELSE None
    /\ raised' = "none"
    /\ pc' = "constructed"
    /\ Consumed
    /\ requests' = 0
    /\ calls' = 0
    /\ UNCHANGED <<page_limit,
                   params, organization_id, result, pages, report_vars,
                   stdout, exit_code>>

(***************************************************************************)
(* Hubstaff.__init__ line 106 once authenticate has returned: the token is *)
(* stored in the session's query parameters and the client is constructed. *)
(***************************************************************************)
authenticate ==
    /\ pc = "authenticate"
    /\ response # {}
    /\ auth_token' = {Returned.auth_token}
    /\ pc' = "constructed"
    /\ Consumed
    /\ requests' = 0
    /\ calls' = 0
    /\ UNCHANGED <<page_limit, raised, params, organization_id, result, pages,
                   report_vars, stdout, exit_code>>

(***************************************************************************)
(* The call of get_organizations (produce_report line 67, the test's line  *)
(* 86), lines 125-129, up to its first request.                            *)
(***************************************************************************)
call_get_organizations ==
    /\ pc = "constructed"
    /\ pc' = "get_organizations"
    /\ result' = [pagination |-> None, organizations |-> <<>>]
    /\ params' = <<>>
    /\ pages' = <<>>
    /\ requests' = 1
    /\ calls' = 0
    /\ Invoke
    /\ UNCHANGED <<page_limit,
                   raised, auth_token, organization_id, report_vars, stdout,
                   exit_code>>

\* get_operations_by_day, lines 149-154, up to its first request
BeginOperationsByDay(id) ==
    /\ pc' = "get_operations_by_day"
    /\ organization_id' = id
    /\ result' = [pagination |-> None, daily_activities |-> <<>>,
                  users |-> {}, projects |-> {}]
    /\ params' = [include |-> "users,projects"]
    /\ pages' = <<>>
    /\ requests' = 1
    /\ calls' = 0
    /\ Invoke

(***************************************************************************)
(* The call of get_operations_by_day on a constructed client, as the test  *)
(* makes it (line 117).                                                    *)
(***************************************************************************)
call_get_operations_by_day(id) ==
    /\ pc = "constructed"
    /\ BeginOperationsByDay(id)
    /\ UNCHANGED <<page_limit,
                   raised, auth_token, report_vars, stdout, exit_code>>

(***************************************************************************)
(* get_organizations, lines 135-140: merge the page, follow the cursor or  *)
(* return.                                                                 *)
(***************************************************************************)
get_organizations ==
    /\ pc = "get_organizations"
    /\ response # {}
    /\ LET page == Returned
       IN  /\ result' =
                [result EXCEPT
                    !.organizations =
                        extend(result.organizations, page.organizations)]
           /\ pages' = Append(pages, page)
           /\ IF has_next_page(page)
              THEN /\ params' = NextParams(page)
                   /\ requests' = requests + 1
                   /\ Invoke
                   /\ UNCHANGED <<pc, org_response, idx, tracked_activities>>
              ELSE /\ org_response' = result'
                   /\ idx' = 1
                   /\ tracked_activities' = <<>>
                   /\ pc' = "produce_report"
                   /\ Consumed
                   /\ UNCHANGED <<params, requests>>
    /\ UNCHANGED <<page_limit,
                   raised, auth_token, organization_id, calls, project_map,
                   user_map, matrices, stdout, exit_code>>

(***************************************************************************)
(* produce_report's for loop, lines 70-75: the next organization's         *)
(* get_operations_by_day up to its first request.                          *)
(***************************************************************************)
produce_report ==
    /\ pc = "produce_report"
    /\ raised = "none"
    /\ idx <= Len(org_response.organizations)
    /\ BeginOperationsByDay(org.id)
    /\ UNCHANGED <<page_limit,
                   raised, auth_token, report_vars, stdout, exit_code>>

(***************************************************************************)
(* get_operations_by_day, lines 166-173.                                   *)
(***************************************************************************)
get_operations_by_day ==
    /\ pc = "get_operations_by_day"
    /\ response # {}
    /\ LET page == Returned
       IN  /\ result' =
                [result EXCEPT
                    !.daily_activities =
                        extend(result.daily_activities, page.daily_activities),
                    !.users = update(result.users, page.users),
                    !.projects = update(result.projects, page.projects)]
           /\ pages' = Append(pages, page)
           /\ IF has_next_page(page)
              THEN /\ params' = NextParams(page)
                   /\ requests' = requests + 1
                   /\ Invoke
                   /\ pc' = pc
              ELSE /\ pc' = "accumulate"
                   /\ Consumed
                   /\ UNCHANGED <<params, requests>>
    /\ UNCHANGED <<page_limit,
                   raised, auth_token, organization_id, calls, report_vars,
                   stdout, exit_code>>

\* variant: a failed lookup is swallowed and the organization left out
accumulate_skipping ==
    /\ pc = "accumulate"
    /\ raised = "none"
    /\ \E pm \in LookupMaps(result.projects), um \in LookupMaps(result.users) :
       /\ project_map' = pm
       /\ user_map' = um
       /\ LET out == accumulate_activities(result, pm, um)
          IN  IF out.error # "none"
              THEN UNCHANGED <<tracked_activities, matrices>>
              ELSE /\ tracked_activities' =
                       (org_response.organizations[idx].name :> out.value)
                       @@ tracked_activities
                   /\ matrices' = Append(matrices, out.value)
    /\ idx' = idx + 1
    /\ pc' = "produce_report"
    /\ params' = <<>>
    /\ pages' = <<>>
    /\ requests' = 0
    /\ calls' = 0
    /\ UNCHANGED <<page_limit,
                   request_vars, raised, auth_token, organization_id, result,
                   org_response, stdout, exit_code>>

(***************************************************************************)
(* produce_report line 76: tracked_activities[org.name] =                  *)
(* accumulate_activities(operations).  A missing id is a KeyError.         *)
(***************************************************************************)
accumulate ==
    /\ pc = "accumulate"
    /\ raised = "none"
    /\ \E pm \in LookupMaps(result.projects), um \in LookupMaps(result.users) :
       /\ project_map' = pm
       /\ user_map' = um
       /\ LET out == accumulate_activities(result, pm, um)
          IN  IF out.error # "none"
              THEN /\ raised' = out.error
                   /\ UNCHANGED <<pc, idx, tracked_activities, matrices>>
              ELSE /\ tracked_activities' =
                       (org.name :> out.value) @@ tracked_activities
                   /\ matrices' = Append(matrices, out.value)
                   /\ idx' = idx + 1
                   /\ pc' = "produce_report"
                   /\ raised' = raised
    /\ Discarded
    /\ UNCHANGED <<page_limit,
                   request_vars, auth_token, organization_id, result,
                   org_response, stdout, exit_code>>

(***************************************************************************)
(* produce_report line 78 and main lines 105-106: render, write, return.   *)
(* The renderer is handed the context and may fail (no template).          *)
(***************************************************************************)
render_html_template(tracked, report_date) ==
    [report_date |-> report_date, tracked_activities |-> tracked]

write_report(rendered) ==
    /\ pc = "produce_report"
    /\ raised = "none"
    /\ idx > Len(org_response.organizations)
    /\ IF rendered
       THEN /\ stdout' =
                Append(stdout,
                       render_html_template(tracked_activities, date_start))
            /\ exit_code' = {0}
            /\ pc' = "exit"
            /\ raised' = raised
       ELSE /\ raised' = "TemplateNotFound"
            /\ UNCHANGED <<pc, stdout, exit_code>>
    /\ Discarded
    /\ UNCHANGED <<page_limit,
                   request_vars, auth_token, organization_id, result,
                   report_vars>>

(***************************************************************************)
(* main lines 107-112: whatever was raised is logged and the run exits 1.  *)
(***************************************************************************)
main_except ==
    /\ raised # "none"
    /\ pc # "exit"
    /\ exit_code' = {1}
    /\ pc' = "exit"
    /\ Consumed
    /\ Discarded
    /\ UNCHANGED <<page_limit,
                   raised, auth_token, organization_id, result, report_vars,
                   stdout>>

Next ==
    \/ \E complete \in BOOLEAN : load_settings(complete)
    \/ send_request
    \/ authenticate
    \/ call_get_organizations
    \/ get_organizations
    \/ produce_report
    \/ get_operations_by_day
    \/ accumulate
    \/ \E rendered \in BOOLEAN : write_report(rendered)
    \/ main_except

Spec == Init /\ [][Next]_vars

(***************************************************************************)
(* The client on its own, driven as the tests drive it: it is constructed  *)
(* (which signs in), then one of its two listing methods is called.  An    *)
(* exception reaches the caller.  A listing has up to MaxPages + 1 pages.  *)
(***************************************************************************)
InitClient ==
    /\ page_limit = MaxPages + 1
    /\ pc = "authenticate"
    /\ attempt = 1
    /\ outcomes = <<>>
    /\ http_response = <<>>
    /\ response = {}
    /\ raised = "none"
    /\ sent = <<>>
    /\ auth_token = None
    /\ params = <<>>
    /\ organization_id = 0
    /\ result = <<>>
    /\ pages = <<>>
    /\ requests = 1
    /\ calls = 0
    /\ org_response = <<>>
    /\ idx = 0
    /\ project_map = <<>>
    /\ user_map = <<>>
    /\ tracked_activities = <<>>
    /\ matrices = <<>>
    /\ stdout = <<>>
    /\ exit_code = {}

NextClient ==
    \/ send_request
    \/ authenticate
    \/ call_get_organizations
    \/ get_organizations
    \/ \E id \in {O1.id} : call_get_operations_by_day(id)
    \/ get_operations_by_day

SpecClient == InitClient /\ [][NextClient]_vars

(***************************************************************************)
(* The same client, which always takes its next step: the program is one   *)
(* thread, every call ends within the request timeout and the wait between *)
(* two attempts is one second.                                             *)
(***************************************************************************)
SpecClientLive == InitClient /\ [][NextClient]_vars /\ WF_vars(NextClient)

(***************************************************************************)
(* accumulate_activities on its own: produce_report stands at line 76 with *)
(* any response a service can have sent for the one organization listed.   *)
(***************************************************************************)
\* users that share an id but not the name, and a name but not the id
AccumulateUsers == {Usr(1, "X", "x@example.com"), Usr(1, "Y", "x@example.com"),
                    Usr(2, "X", "x@example.com")}

AccumulateProjects == {Prj(1, "A", "active"), Prj(1, "B", "active"),
                       Prj(2, "A", "active")}

AccumulateActivities ==
    {Act(1, uid, pid, secs, 60) :
        uid \in {1, 2}, pid \in {1, 2}, secs \in {1800, 90000}}

SeqsUpTo(S, n) == UNION {[1..k -> S] : k \in 0..n}

AccumulateInputs ==
    {[pagination |-> None, daily_activities |-> acts, users |-> us,
      projects |-> ps] :
        acts \in SeqsUpTo(AccumulateActivities, MaxActivities),
        us \in SUBSET AccumulateUsers, ps \in SUBSET AccumulateProjects}

InitAccumulate ==
    /\ page_limit = MaxPages
    /\ pc = "accumulate"
    /\ attempt = 0
    /\ outcomes = <<>>
    /\ http_response = <<>>
    /\ response = {}
    /\ raised = "none"
    /\ sent = <<>>
    /\ auth_token = {"sample_token"}
    /\ params = [include |-> "users,projects"]
    /\ organization_id = O1.id
    /\ result \in AccumulateInputs
    /\ pages = <<result>>
    /\ requests = 1
    /\ calls = 1
    /\ org_response = [pagination |-> None, organizations |-> <<O1>>]
    /\ idx = 1
    /\ project_map = <<>>
    /\ user_map = <<>>
    /\ tracked_activities = <<>>
    /\ matrices = <<>>
    /\ stdout = <<>>
    /\ exit_code = {}

NextAccumulate == accumulate

SpecAccumulate == InitAccumulate /\ [][NextAccumulate]_vars

(***************************************************************************)
(* Properties of accumulate_activities.                                    *)
(***************************************************************************)
\* accumulate_activities has just returned a matrix for organization idx - 1
AccumulateReturned == pc = "produce_report" /\ idx > 1 /\ raised = "none"

\* accumulate_activities has just failed on a lookup
AccumulateFailed == raised = "KeyError"

\* the matrix it returned, as stored by line 76
Matrix == tracked_activities[org_response.organizations[idx - 1].name]

ProjectNames == {p.name : p \in result.projects}
UserNames == {u.name : u \in result.users}
ProjectIds == {p.id : p \in result.projects}
UserIds == {u.id : u \in result.users}

\* the positions of the activity records the lookup maps send to cell (p, u)
CellActivities(p, u) ==
    {i \in DOMAIN result.daily_activities :
        /\ project_map[result.daily_activities[i].project_id] = p
        /\ user_map[result.daily_activities[i].user_id] = u}

RECURSIVE TrackedSum(_)
TrackedSum(positions) ==
    IF positions = {} THEN 0
    ELSE LET i == CHOOSE j \in positions : TRUE
         IN  result.daily_activities[i].tracked + TrackedSum(positions \ {i})

\* some activity record refers to an id that no project or user carries
Unresolved(activities) ==
    \E i \in DOMAIN activities.daily_activities :
        \/ activities.daily_activities[i].project_id
                \notin {p.id : p \in activities.projects}
        \/ activities.daily_activities[i].user_id
                \notin {u.id : u \in activities.users}

\* C6: whenever accumulate_activities returns a matrix, its row keys are
\* all the project names of the response, every row's column keys are all
\* the user names of the response, and a cell no activity maps to is zero --
\* also when two projects (or users) share an id and differ in the name.
C6_FullCartesianProduct ==
    AccumulateReturned =>
        /\ DOMAIN Matrix = ProjectNames
        /\ \A p \in DOMAIN Matrix :
              /\ DOMAIN Matrix[p] = UserNames
              /\ \A u \in DOMAIN Matrix[p] :
                    CellActivities(p, u) = {} => Matrix[p][u] = timedelta(0)

\* C7: when every id resolves a matrix is returned, and each of its cells
\* holds the sum of the tracked seconds of exactly the activity records
\* whose ids resolve to that cell; manual and billable add nothing, and
\* every record is counted in one cell only.
C7_CellIsSumOfTracked ==
    /\ AccumulateFailed => Unresolved(result)
    /\ AccumulateReturned =>
          /\ \A p \in DOMAIN Matrix : \A u \in DOMAIN Matrix[p] :
                total_seconds(Matrix[p][u]) = TrackedSum(CellActivities(p, u))
          /\ \A i \in DOMAIN result.daily_activities :
                Cardinality({c \in (DOMAIN Matrix) \X Range(user_map) :
                                i \in CellActivities(c[1], c[2])}) = 1

\* two records of one cell have been summed, past a day's worth of seconds
C7_Witness ==
    /\ AccumulateReturned
    /\ Len(result.daily_activities) = 2
    /\ \E p \in DOMAIN Matrix : \E u \in DOMAIN Matrix[p] :
          /\ CellActivities(p, u) = {1, 2}
          /\ total_seconds(Matrix[p][u]) = 91800
          /\ Matrix[p][u].days = 1

\* C8: a response holding an activity record whose project_id or user_id is
\* the id of no project or user of the response makes accumulate_activities
\* fail with a lookup error; no matrix is stored and the loop does not move
\* on, wherever the record stands in the list.
C8_UnresolvedIdFails ==
    [][(pc = "accumulate" /\ Unresolved(result)) =>
            /\ raised' = "KeyError"
            /\ tracked_activities' = tracked_activities
            /\ idx' = idx]_vars

\* the lookup failed on the second record, the first one resolving
C8_Witness ==
    /\ AccumulateFailed
    /\ Len(result.daily_activities) = 2
    /\ result.daily_activities[1].project_id \in ProjectIds
    /\ result.daily_activities[1].user_id \in UserIds
    /\ \/ result.daily_activities[2].project_id \notin ProjectIds
       \/ result.daily_activities[2].user_id \notin UserIds
    /\ tracked_activities = <<>>

(***************************************************************************)
(* Properties of the retry wrapper.                                        *)
(***************************************************************************)
\* every attempt of the logical request so far succeeded or failed in transport
AllTransportOrSuccess ==
    \A i \in DOMAIN outcomes : outcomes[i] \in TransportErrors \cup {"none"}

\* C1: underlying calls are issued one after another until the first
\* success, at most 3 of them; when attempt k is the first to succeed the
\* request returns that attempt's parsed response after exactly k calls,
\* and a transport failure short of the third attempt leaves a retry pending.
C1_RetryUntilFirstSuccess ==
    (pc \in CallSites /\ AllTransportOrSuccess) =>
        LET n == Len(outcomes)
        IN  /\ n <= MaxAttempts
            /\ \A i \in 1..n : outcomes[i] = "none" => i = n
            /\ (n >= 1 /\ outcomes[n] = "none") =>
                  /\ raised = "none"
                  /\ attempt = n
                  /\ response =
                        {model_validate(ResponseType, http_response.body).value}
            /\ (n >= 1 /\ n < MaxAttempts /\ outcomes[n] # "none") =>
                  /\ raised = "none"
                  /\ response = {}
                  /\ attempt = n + 1

\* two transport failures of different kinds, then a success on the third call
C1_Witness ==
    /\ pc = "get_operations_by_day"
    /\ outcomes = <<"Timeout", "HTTPError", "none">>
    /\ response # {}
    /\ raised = "none"

\* C2: a validation failure ends the logical request at once, whichever
\* attempt it is: it is the last call made, the request raises the
\* validation error and returns nothing.
C2_ValidationErrorNotRetried ==
    \A i \in DOMAIN outcomes :
        outcomes[i] = "ValidationError" =>
            /\ i = Len(outcomes)
            /\ raised = "ValidationError"
            /\ response = {}

\* the first body failed validation: one call, the error raised
C2_Witness ==
    /\ pc = "get_organizations"
    /\ outcomes = <<"ValidationError">>
    /\ raised = "ValidationError"
    /\ calls = 1

\* C3: after three transport failures there is no fourth call and the
\* request fails with the third attempt's own error, whatever the kinds.
C3_ExhaustionReraisesLastError ==
    /\ Len(outcomes) <= MaxAttempts
    /\ (/\ Len(outcomes) = MaxAttempts
        /\ \A i \in DOMAIN outcomes : outcomes[i] \in TransportErrors) =>
            /\ raised = outcomes[MaxAttempts]
            /\ response = {}

\* three transport failures of three kinds, the last one raised
C3_Witness ==
    /\ outcomes = <<"ConnectionError", "HTTPError", "Timeout">>
    /\ raised = "Timeout"

\* C4 as claimed: a sign-in answered with a non-2xx status is not retried,
\* one call to the sign-in path and the request has failed.
C4_SignInRejectionNotRetried ==
    (pc = "authenticate" /\ outcomes # <<>> /\ outcomes[1] = "HTTPError") =>
        /\ Len(outcomes) = 1
        /\ raised # "none"

\* C4 as amended: a sign-in answered with a non-2xx status is retried like
\* any transport failure: after the first and the second such answer another
\* attempt is pending, and after three of them the request fails with the
\* third attempt's HTTP status error, every call having gone to the sign-in
\* path.
C4_SignInRejectionRetried ==
    (pc = "authenticate" /\ outcomes # <<>>) =>
        LET n == Len(outcomes)
        IN  /\ sent.path = SignInPath
            /\ (n < MaxAttempts /\ outcomes[n] = "HTTPError") =>
                  /\ raised = "none"
                  /\ response = {}
                  /\ attempt = n + 1
            /\ (\A i \in DOMAIN outcomes : outcomes[i] = "HTTPError") =>
                  (raised # "none" <=> n = MaxAttempts)
            /\ (n = MaxAttempts /\ outcomes[n] = "HTTPError") =>
                  raised = "HTTPError"

\* the sign-in was rejected three times and the run has the HTTP error
C4_Witness ==
    /\ pc = "authenticate"
    /\ outcomes = <<"HTTPError", "HTTPError", "HTTPError">>
    /\ raised = "HTTPError"
    /\ auth_token = None

(***************************************************************************)
(* Properties of the pagination loops.                                     *)
(***************************************************************************)
RECURSIVE Flatten(_)
Flatten(lists) ==
    IF lists = <<>> THEN <<>> ELSE Head(lists) \o Flatten(Tail(lists))

\* get_organizations or get_operations_by_day has just returned
RunReturned ==
    \/ pc = "accumulate"
    \/ pc = "produce_report" /\ idx = 1 /\ pages # <<>>

\* C5: a run over N valid pages, every page but the last with a cursor and
\* no attempt failing, issues exactly N requests and returns the pages'
\* lists concatenated in page order and the pages' sets united, members
\* being the same only when all their fields are.
C5_PaginationComplete ==
    (RunReturned /\ raised = "none" /\ calls = requests) =>
        LET n == Len(pages)
        IN  /\ n >= 1
            /\ requests = n
            /\ \A k \in 1..n : (pages[k].pagination = None) <=> (k = n)
            /\ IF pc = "accumulate"
               THEN /\ result.daily_activities =
                        Flatten([k \in 1..n |-> pages[k].daily_activities])
                    /\ result.users = UNION {pages[k].users : k \in 1..n}
                    /\ result.projects =
                        UNION {pages[k].projects : k \in 1..n}
               ELSE result.organizations =
                        Flatten([k \in 1..n |-> pages[k].organizations])

\* two pages both carrying P1, the second also P1b that differs in status
C5_Witness ==
    /\ pc = "accumulate"
    /\ calls = 2
    /\ requests = 2
    /\ Len(pages) = 2
    /\ P1 \in pages[1].projects
    /\ {P1, P1b} \subseteq pages[2].projects
    /\ result.projects = {P1, P1b}
    /\ result.users = {U1, U1b}
    /\ result.daily_activities = <<A1, A2>>

(***************************************************************************)
(* Properties of the driver.                                               *)
(***************************************************************************)
\* the document has been written
Written == stdout # <<>>

OrganizationIds ==
    {org_response.organizations[j].id : j \in DOMAIN org_response.organizations}

\* C9: in the mapping handed to the renderer every organization of the
\* listing has its name as a key, and the value under it is the matrix
\* aggregated from that organization's own response (stated for listings
\* whose organizations have pairwise different ids, same names included).
C9_EveryOrganizationHasItsOwnMatrix ==
    (/\ Written
     /\ Cardinality(OrganizationIds) = Len(org_response.organizations)) =>
        \A j \in DOMAIN org_response.organizations :
            LET name == org_response.organizations[j].name
                handed == stdout[1].tracked_activities
            IN  /\ name \in DOMAIN handed
                /\ handed[name] = matrices[j]

\* C10: a failure anywhere ends the run with exit code 1 and nothing on
\* standard output; the document is written, once and with exit code 0,
\* only when every organization of the listing has been fetched and
\* aggregated, and it then has a key for each of them.
C10_AllOrNothing ==
    /\ raised # "none" => (~Written /\ exit_code # {0})
    /\ exit_code = {1} => (~Written /\ raised # "none")
    /\ (pc = "exit" /\ raised # "none") => exit_code = {1}
    /\ exit_code = {0} => Written
    /\ Written =>
          /\ Len(stdout) = 1
          /\ exit_code = {0}
          /\ raised = "none"
          /\ Len(matrices) = Len(org_response.organizations)
          /\ \A j \in DOMAIN org_response.organizations :
                org_response.organizations[j].name
                    \in DOMAIN stdout[1].tracked_activities

\* the second organization's aggregation failed after the first succeeded
C10_Witness ==
    /\ pc = "exit"
    /\ exit_code = {1}
    /\ raised = "KeyError"
    /\ Len(org_response.organizations) = 2
    /\ Len(matrices) = 1
    /\ stdout = <<>>

(***************************************************************************)
(* Properties of the session.                                              *)
(***************************************************************************)
\* the call in flight goes to another endpoint than sign-in
OtherThanSignIn == sent # <<>> /\ sent.path # SignInPath

\* C11: a request to the organizations endpoint or to an operations-by-day
\* endpoint is only ever issued after a successful sign-in; when the
\* sign-in fails the construction fails: no listing method is entered, the
\* session stays without a credential and the run goes straight to exit 1.
C11_NoRequestWithoutSignIn ==
    /\ [](OtherThanSignIn => auth_token # None)
    /\ [](auth_token = None =>
            /\ pc \in {"main", "authenticate", "exit"}
            /\ result = <<>>
            /\ org_response = <<>>
            /\ sent # <<>> => sent.path = SignInPath)
    /\ [][(pc = "authenticate" /\ raised # "none") =>
            /\ pc' = "exit"
            /\ exit_code' = {1}
            /\ auth_token' = None
            /\ result' = <<>>]_vars

\* the sign-in was rejected for good and the run is over, nothing listed
C11_Witness ==
    /\ pc = "exit"
    /\ raised = "HTTPError"
    /\ auth_token = None
    /\ exit_code = {1}
    /\ result = <<>>
    /\ org_response = <<>>

(***************************************************************************)
(* Properties of the schema validation.                                    *)
(***************************************************************************)
\* the members DailyActivity declares, the optional task_id apart
RequiredButTaskId == DailyActivityFields \ {"task_id"}

\* a daily-activities page whose every record carries every declared member,
\* except perhaps task_id, which may be null, present or left out
WellFormedButTaskId(body) ==
    /\ HasFields(body, {"daily_activities", "users", "projects"})
    /\ \A a \in Range(body.daily_activities) : HasFields(a, RequiredButTaskId)
    /\ \A u \in Range(body.users) : HasFields(u, UserFields)
    /\ \A p \in Range(body.projects) : HasFields(p, ProjectFields)

\* the call of a daily-activities page has just come back with a JSON body
ActivitiesPageReceived ==
    /\ pc = "get_operations_by_day"
    /\ http_response # <<>>
    /\ http_response.error = "none"
    /\ http_response.json

\* C12: a daily-activities page whose records carry all members but
\* task_id -- which is null, or left out altogether -- and possibly members
\* the model does not declare, passes validation: no validation failure is
\* raised and the page's records are what the request returns.
C12_TaskIdMayBeAbsentOrNull ==
    (ActivitiesPageReceived /\ WellFormedButTaskId(http_response.body)) =>
        /\ raised # "ValidationError"
        /\ response # {}
        /\ Len(Returned.daily_activities)
                = Len(http_response.body.daily_activities)

(***************************************************************************)
(* Properties of the requests a pagination run issues.                     *)
(***************************************************************************)
\* a pagination loop is running
InRun == pc \in {"get_organizations", "get_operations_by_day"}

\* the cursor a page carries
CursorOf(page) == (CHOOSE c \in page.pagination : TRUE).next_page_start_id

\* the query parameters of request number `requests` follow the last page
FollowsLastPage(query) ==
    IF requests = 1
    THEN "page_start_id" \notin DOMAIN query
    ELSE /\ "page_start_id" \in DOMAIN query
         /\ query["page_start_id"] = CursorOf(pages[requests - 1])

\* C13: in a pagination run request k+1 is issued only after page k has been
\* received with a cursor; the first request carries no page_start_id and
\* every later one the cursor of the page just before it; once a page comes
\* without a cursor the run has returned and asks for nothing more.  Every
\* call of a get_operations_by_day run carries include=users,projects and
\* the DateStart and DateStop headers of the call's arguments.
C13_CursorChaining ==
    /\ InRun =>
          /\ Len(pages) = requests - 1
          /\ \A k \in DOMAIN pages : pages[k].pagination # None
          /\ FollowsLastPage(params)
          /\ sent # <<>> =>
                /\ FollowsLastPage(sent.params)
                /\ pc = "get_operations_by_day" =>
                      /\ sent.path = OperationsPath(organization_id)
                      /\ sent.params["include"] = "users,projects"
                      /\ sent.headers["DateStart"] = date_start
                      /\ sent.headers["DateStop"] = date_end
    /\ RunReturned =>
          /\ Len(pages) = requests
          /\ \A k \in DOMAIN pages :
                (pages[k].pagination = None) <=> (k = Len(pages))

\* the third request of an operations run carries the second page's cursor,
\* which is another one than the first page's
C13_Witness ==
    /\ pc = "get_operations_by_day"
    /\ requests = 3
    /\ sent # <<>>
    /\ CursorOf(pages[1]) = 10
    /\ CursorOf(pages[2]) = 20
    /\ sent.params["page_start_id"] = 20
    /\ sent.params["include"] = "users,projects"

\* the page the last request has just been answered with, not merged yet
PageInHand == InRun /\ response # {}

\* C14: a pagination run has no page bound of its own.  A page with a
\* cursor always makes the loop issue one more request and a page without
\* one makes it return, so a run that has returned ended on the one page
\* without a cursor and a run whose pages all carried a cursor is still
\* going, however many they are; and against a service that stops sending
\* cursors after finitely many pages the run comes to an end: it returns,
\* unless a request fails.
C14_TerminatesOnlyOnCursorlessPage ==
    /\ [][PageInHand =>
            IF Returned.pagination # None
            THEN /\ pc' = pc
                 /\ requests' = requests + 1
                 /\ attempt' = 1
                 /\ response' = {}
            ELSE /\ ~InRun'
                 /\ RunReturned'
                 /\ requests' = requests]_vars
    /\ [](RunReturned =>
            \A k \in DOMAIN pages :
                (pages[k].pagination = None) <=> (k = Len(pages)))
    /\ []((InRun /\ raised = "none") =>
            \A k \in DOMAIN pages : pages[k].pagination # None)
    /\ <>(RunReturned \/ raised # "none")

\* the service has sent a cursor on every page it can and the loop is at
\* its next request, as many pages as that takes
C14_Witness ==
    /\ InRun
    /\ requests = page_limit
    /\ Len(pages) = page_limit - 1
    /\ page_limit > 2
    /\ \A k \in DOMAIN pages : pages[k].pagination # None
    /\ sent # <<>>

(***************************************************************************)
(* Properties of the order of the driver's requests.                       *)
(***************************************************************************)
\* C15: the driver is strictly sequential.  A call to the organizations
\* endpoint is only in flight while nothing has been listed yet; a call to
\* an operations-by-day endpoint is only in flight once get_organizations
\* has returned the merged listing, and it goes to the organization the
\* for loop stands at, every organization before it in the listing having
\* been fetched completely and aggregated; the loop moves from one
\* organization to the next one in the listing only, when the run of the
\* first has returned and been aggregated, and the listing never changes.
C15_StrictlySequential ==
    /\ []((sent # <<>> /\ sent.path = OrganizationsPath) =>
            /\ pc = "get_organizations"
            /\ org_response = <<>>
            /\ idx = 0
            /\ matrices = <<>>)
    /\ []((sent # <<>> /\ sent.path \notin {SignInPath, OrganizationsPath}) =>
            /\ pc = "get_operations_by_day"
            /\ org_response # <<>>
            /\ idx \in DOMAIN org_response.organizations
            /\ sent.path = OperationsPath(org_response.organizations[idx].id)
            /\ Len(matrices) = idx - 1)
    /\ [][/\ (org_response # <<>> => org_response' = org_response)
          /\ (idx' # idx =>
                \/ idx = 0 /\ idx' = 1 /\ pc = "get_organizations"
                \/ idx' = idx + 1 /\ pc = "accumulate" /\ sent = <<>>)
          /\ (pc' = "get_operations_by_day" /\ pc # pc') =>
                /\ pc = "produce_report"
                /\ idx' = idx
                /\ organization_id' = org_response.organizations[idx].id]_vars

\* the second organization's run is at a retry of its second page, the first
\* organization, another one, fetched over its pages and aggregated
C15_Witness ==
    /\ pc = "get_operations_by_day"
    /\ idx = 2
    /\ org_response.organizations[1].id # org_response.organizations[2].id
    /\ Len(matrices) = 1
    /\ requests = 2
    /\ attempt = 2
    /\ sent # <<>>
    /\ sent.path = OperationsPath(org_response.organizations[2].id)

(***************************************************************************)
(* Properties of the session's credential.                                 *)
(***************************************************************************)
\* C16: the credential is set exactly once.  Every attempt of the sign-in
\* goes out without an auth_token parameter; every call to another endpoint
\* -- first attempts, retries and later pages of every operation -- carries
\* the stored token as auth_token; the credential is stored by the step
\* that takes the sign-in's answer, as the token of that answer, and no
\* later step changes it.
C16_CredentialSetOnce ==
    /\ []((sent # <<>> /\ sent.path = SignInPath) =>
            /\ auth_token = None
            /\ "auth_token" \notin DOMAIN sent.params)
    /\ []((sent # <<>> /\ sent.path # SignInPath) =>
            /\ "auth_token" \in DOMAIN sent.params
            /\ auth_token = {sent.params["auth_token"]})
    /\ [][auth_token' # auth_token =>
            /\ auth_token = None
            /\ pc = "authenticate"
            /\ response # {}
            /\ auth_token' = {http_response.body.auth_token}]_vars

\* a retry of the second page of the second organization's operations
\* carries the token next to the cursor
C16_Witness ==
    /\ pc = "get_operations_by_day"
    /\ idx = 2
    /\ requests = 2
    /\ attempt = 2
    /\ sent # <<>>
    /\ "page_start_id" \in DOMAIN sent.params
    /\ sent.params["auth_token"] = "sample_token"
    /\ auth_token = {"sample_token"}

(***************************************************************************)
(* Properties of retrying within a pagination run.                         *)
(***************************************************************************)
\* the pages a run has received, merged as the loops merge them
MergedPages ==
    IF pc \in {"get_operations_by_day", "accumulate"}
    THEN [pagination |-> None,
          daily_activities |->
              Flatten([k \in DOMAIN pages |-> pages[k].daily_activities]),
          users |-> UNION {pages[k].users : k \in DOMAIN pages},
          projects |-> UNION {pages[k].projects : k \in DOMAIN pages}]
    ELSE [pagination |-> None,
          organizations |->
              Flatten([k \in DOMAIN pages |-> pages[k].organizations])]

\* C17: the retry budget is per logical request.  The sign-in and every
\* page request start at attempt 1 with nothing counted against them,
\* however many attempts the requests before took; a request only fails on
\* a retryable error when it has itself made 3 attempts; and a run over N
\* pages that returns has made between N and 3N calls and returns all N
\* pages merged.
C17_BudgetPerRequest ==
    /\ [][(pc' \in CallSites /\ (requests' # requests \/ pc' # pc)) =>
            /\ attempt' = 1
            /\ outcomes' = <<>>
            /\ raised' = "none"]_vars
    /\ []((pc \in CallSites /\ raised = "none") =>
            /\ attempt = Len(outcomes) + (IF response = {} THEN 1 ELSE 0)
            /\ attempt <= MaxAttempts
            /\ calls - Len(outcomes) >= requests - 1
            /\ calls - Len(outcomes) <= MaxAttempts * (requests - 1))
    /\ []((pc \in CallSites /\ raised \notin {"none", "ValidationError"}) =>
            Len(outcomes) = MaxAttempts)
    /\ []((RunReturned /\ raised = "none") =>
            /\ requests = Len(pages)
            /\ calls >= requests
            /\ calls <= MaxAttempts * requests
            /\ result = MergedPages)

\* three pages, each answered on the third attempt only: nine calls, and the
\* run returns the three pages merged
C17_Witness ==
    /\ pc = "accumulate"
    /\ raised = "none"
    /\ requests = 3
    /\ calls = 3 * MaxAttempts
    /\ Len(pages) = 3
    /\ Len(result.daily_activities) = 3

\* C18: failed attempts never touch the accumulators.  An underlying call,
\* failed or not, leaves the loop's accumulator, page list and parameters
\* as they are; the accumulator changes only when a request has returned a
\* page, by that one page; so at any moment it is the merge of the pages
\* received, whatever attempts they took; and once a request has ended in
\* an error the run takes no further step: nothing is returned to the
\* caller.
C18_FailedAttemptsLeaveNoTrace ==
    /\ [][calls' = calls + 1 =>
            /\ result' = result
            /\ pages' = pages
            /\ params' = params
            /\ requests' = requests]_vars
    /\ [][(InRun /\ result' # result) =>
            /\ response # {}
            /\ raised = "none"
            /\ outcomes[Len(outcomes)] = "none"
            /\ pages' = Append(pages, Returned)]_vars
    /\ []((InRun \/ RunReturned) => result = MergedPages)
    /\ [](raised # "none" =>
            /\ pc \in CallSites
            /\ response = {}
            /\ org_response = <<>>)
    /\ [][raised = "none"]_vars

\* both pages of a run needed a retry, and the run returned the two pages
\* merged once each
C18_Witness ==
    /\ pc = "accumulate"
    /\ raised = "none"
    /\ requests = 2
    /\ calls = 4
    /\ result.daily_activities = <<A1, A2>>
    /\ result.projects = {P1, P1b}

(***************************************************************************)
(* Properties of what is retried.                                          *)
(***************************************************************************)
\* the failures of an attempt other than a schema validation failure
RetriedErrors == TransportErrors \cup {"JSONDecodeError"}

\* C19: the only failure of an attempt that stops retrying is a schema
\* validation failure.  Any other failure, a 2xx answer whose body is not
\* JSON included, uses up one attempt: short of the third attempt another
\* one is pending, on the third the request fails with that error; a
\* request never fails on fewer than 3 calls otherwise, and a body that is
\* never JSON costs exactly 3 calls.
C19_OnlyValidationStopsRetrying ==
    (pc \in CallSites /\ outcomes # <<>>) =>
        LET n == Len(outcomes)
        IN  /\ \A i \in 1..(n - 1) : outcomes[i] \in RetriedErrors
            /\ (outcomes[n] \in RetriedErrors /\ n < MaxAttempts) =>
                  /\ raised = "none"
                  /\ response = {}
                  /\ attempt = n + 1
            /\ (outcomes[n] \in RetriedErrors /\ n >= MaxAttempts) =>
                  /\ n = MaxAttempts
                  /\ raised = outcomes[n]
            /\ raised # "none" =>
                  \/ raised = "ValidationError" /\ outcomes[n] = raised
                  \/ n = MaxAttempts /\ raised \in RetriedErrors
            /\ (~http_response.json /\ http_response.error = "none") =>
                  outcomes[n] = "JSONDecodeError"

\* three answers in a row that are not JSON: three calls, then the error
C19_Witness ==
    /\ pc = "get_organizations"
    /\ requests = 1
    /\ calls = 3
    /\ outcomes = <<"JSONDecodeError", "JSONDecodeError", "JSONDecodeError">>
    /\ raised = "JSONDecodeError"
    /\ http_response = NotJson

====
